---- MODULE Spec2Model ----
(***************************************************************************)
(* A model of lib/core.js of builder-webpack-core: the static methods of   *)
(* BuilderCore that compute names, paths and rewrite rules.                *)
(*                                                                         *)
(* JavaScript strings are sequences of one-character strings, so that     *)
(* indexOf, replace and the regular expressions of the source are         *)
(* computed character by character.  A JavaScript value that may be a     *)
(* string, a boolean or undefined is a record [t |-> ..., v |-> ...].     *)
(***************************************************************************)
EXTENDS Integers, Sequences, FiniteSets, TLC

\* ------------------------------------------------------------------------
\* String primitives (String.prototype.indexOf / replace, RegExp matching)
\* ------------------------------------------------------------------------

\* the characters of a TLA+ string, in order
Chars(str) == [k \in 1..Len(str) |-> SubSeq(str, k, k)]

\* the literal t occurs in s at the 1-based position i
LitAt(s, i, t) ==
    /\ i >= 1
    /\ i + Len(t) - 1 <= Len(s)
    /\ \A k \in 1..Len(t) : s[i + k - 1] = t[k]

\* the least element of a set of positions, 0 for the empty set
FirstOf(S) == IF S = {} THEN 0 ELSE CHOOSE x \in S : \A y \in S : x <= y

\* the 1-based position of the first occurrence of t in s at or after i, 0 if none
FindFrom(s, i, t) == FirstOf({p \in i..(Len(s) - Len(t) + 1) : LitAt(s, p, t)})

\* String.prototype.indexOf: 0-based, -1 when t does not occur in s
indexOf(s, t) == FindFrom(s, 1, t) - 1

\* String.prototype.replace(t, r) with a string pattern: the first occurrence only
replaceFirst(s, t, r) ==
    LET p == FindFrom(s, 1, t)
    IN  IF p = 0 THEN s
        ELSE SubSeq(s, 1, p - 1) \o r \o SubSeq(s, p + Len(t), Len(s))

\* s.replace(/t/g, r) for a pattern t without metacharacters: every
\* non-overlapping occurrence, scanning from the left
RECURSIVE replaceAllFrom(_, _, _, _)
replaceAllFrom(s, i, t, r) ==
    LET p == FindFrom(s, i, t)
    IN  IF p = 0 THEN SubSeq(s, i, Len(s))
        ELSE SubSeq(s, i, p - 1) \o r \o replaceAllFrom(s, p + Len(t), t, r)

replaceAll(s, t, r) == replaceAllFrom(s, 1, t, r)

\* the characters the regular-expression atom dot does not match
LineTerminators == {"\n", "\r"}

\* the characters that end a reference: double quote, quote, backquote and
\* closing parenthesis, the class of group 2 of the patterns of the source
Backquote == "BQ"   \* stands for the one character U+0060

Terminators == {"\"", "'", Backquote, ")"}

\* A regular expression source without quantifiers: a sequence of atoms, each
\* the metacharacter dot (any is TRUE) or one literal character c
Escaped(str) == [k \in 1..Len(str) |-> [any |-> FALSE, c |-> str[k]]]

\* new RegExp(str): str is read as a pattern, so a dot in it is the wildcard
Interpolated(str) ==
    [k \in 1..Len(str) |-> IF str[k] = "." THEN [any |-> TRUE, c |-> "."]
                           ELSE [any |-> FALSE, c |-> str[k]]]

AtomsAt(s, i, atoms) ==
    /\ i + Len(atoms) - 1 <= Len(s)
    /\ \A k \in 1..Len(atoms) :
          IF atoms[k].any THEN s[i + k - 1] \notin LineTerminators
          ELSE s[i + k - 1] = atoms[k].c

\* the position of the first character of Terminators at or after i, 0 if none
TerminatorFrom(s, i) == FirstOf({p \in i..Len(s) : s[p] \in Terminators})

\* the pattern  prefix, one or more non-terminators (group 1), a terminator
\* (group 2)  matched at i: the position of the terminator, 0 when it does not
\* match at i
RefEndAt(s, i, atoms) ==
    IF ~AtomsAt(s, i, atoms) THEN 0
    ELSE LET q == TerminatorFrom(s, i + Len(atoms))
         IN  IF q > i + Len(atoms) THEN q ELSE 0

\* the first position at or after i where the reference pattern matches, 0 if none
NextRef(s, i, atoms) == FirstOf({p \in i..Len(s) : RefEndAt(s, p, atoms) # 0})

Slashes == Chars("//")

\* s.replace(pattern, replacement) with the global pattern above and the
\* replacement  //domain/$1$2
RECURSIVE replaceRefsFrom(_, _, _, _)
replaceRefsFrom(s, i, atoms, domain) ==
    LET p == NextRef(s, i, atoms)
    IN  IF p = 0 THEN SubSeq(s, i, Len(s))
        ELSE LET q == RefEndAt(s, p, atoms)
             IN  SubSeq(s, i, p - 1) \o Slashes \o domain \o <<"/">>
                   \o SubSeq(s, p + Len(atoms), q)
                   \o replaceRefsFrom(s, q + 1, atoms, domain)

replaceRefs(s, atoms, domain) == replaceRefsFrom(s, 1, atoms, domain)

\* ------------------------------------------------------------------------
\* The literals of setOffline (lines 585-604)
\* ------------------------------------------------------------------------

PlatformBase == Chars("//11.url.cn/now/")
CrossOrigin == Chars("crossorigin=\"anonymous\"")
BidToken == Chars("?_bid=152")
ScriptOpen == Chars("<script")
IntegrityOpen == Chars("integrity=\"")
PackOpen == Chars("<script>var pack = ")
ScriptClose == Chars("</script>")
VersionKey == Chars("{\"version\":")

Digits == Chars("0123456789")

\* Number.prototype.toString of a non-negative integer, as JSON.stringify prints it
RECURSIVE DecStr(_)
DecStr(n) ==
    IF n < 10 THEN <<Digits[n + 1]>>
    ELSE DecStr(n \div 10) \o <<Digits[(n % 10) + 1]>>

\* JSON.stringify({version: stamp})
StringifyInject(stamp) == VersionKey \o DecStr(stamp) \o <<"}">>

\* the position of the first line terminator at or after i, Len(s) + 1 if none
LineEndFrom(s, i) ==
    LET p == FirstOf({q \in i..Len(s) : s[q] \in LineTerminators})
    IN  IF p = 0 THEN Len(s) + 1 ELSE p

\* the closing quote of an integrity attribute opened at j (the lazy group of
\* line 599 ends at the first double quote), 0 if the line ends before it
IntegrityClose(s, j, lineEnd) ==
    LET k == FindFrom(s, j + Len(IntegrityOpen), <<"\"">>)
    IN  IF k # 0 /\ k < lineEnd THEN k ELSE 0

\* the positions where the tail of the pattern of line 599 matches after a script
\* opening at i: group 1 is the script opening and a greedy run of characters
\* of the same line, so the pattern takes the last of these positions
IntegrityAfter(s, i) ==
    LET lineEnd == LineEndFrom(s, i + Len(ScriptOpen))
    IN  {j \in (i + Len(ScriptOpen))..(lineEnd - 1) :
            LitAt(s, j, IntegrityOpen) /\ IntegrityClose(s, j, lineEnd) # 0}

SetMax(S) == CHOOSE x \in S : \A y \in S : y <= x

\* the leftmost script opening at or after i where the pattern of line 599
\* matches, 0 if none
RECURSIVE IntegrityScript(_, _)
IntegrityScript(s, i) ==
    LET p == FindFrom(s, i, ScriptOpen)
    IN  IF p = 0 THEN 0
        ELSE IF IntegrityAfter(s, p) # {} THEN p
        ELSE IntegrityScript(s, p + 1)

\* line 599: a replace without the g flag, keeping group 1
stripIntegrity(s) ==
    LET p == IntegrityScript(s, 1)
    IN  IF p = 0 THEN s
        ELSE LET j == SetMax(IntegrityAfter(s, p))
                 k == IntegrityClose(s, j, Len(s) + 1)
             IN  SubSeq(s, 1, j - 1) \o SubSeq(s, k + 1, Len(s))

\* line 604: a replace without the g flag, in front of the first script opening
injectVersion(s, stamp) ==
    LET p == FindFrom(s, 1, ScriptOpen)
    IN  IF p = 0 THEN s
        ELSE SubSeq(s, 1, p - 1) \o PackOpen \o StringifyInject(stamp)
               \o ScriptClose \o SubSeq(s, p, Len(s))

\* lines 592 and 606: the pattern built from the cdn and product options
businessRegex(cfg) ==
    Escaped(Slashes) \o Interpolated(cfg.cdn) \o Escaped(<<"/">>)
      \o Interpolated(cfg.product) \o Escaped(<<"/">>)

\* the markup test asking for htmlPrefix at the start of the path
isHtmlAsset_prefixOnly(cfg, assetPath) == indexOf(assetPath, cfg.htmlPrefix) = 0

\* line 588: the test that selects the markup branch
isHtmlAsset(cfg, assetPath) == indexOf(assetPath, cfg.htmlPrefix) # -1

\* line 590: the platform base rewritten to the target domain
substitutePlatformBase(cfg, s) == replaceRefs(s, Escaped(PlatformBase), cfg.domain)

\* lines 592-593 and 606-607: the business assets rewritten to the target domain
substituteBusiness(cfg, s) == replaceRefs(s, businessRegex(cfg), cfg.domain)

\* line 595
stripCrossOrigin(s) == replaceAll(s, CrossOrigin, <<>>)

\* line 597
stripBid(s) == replaceAll(s, BidToken, <<>>)

\* beforeAddBuffer with the two domain substitutions in the other order
beforeAddBuffer_businessFirst(cfg, src, path, now) ==
    IF isHtmlAsset(cfg, path)
    THEN LET s1 == substituteBusiness(cfg, src)
             s2 == substitutePlatformBase(cfg, s1)
             s3 == stripCrossOrigin(s2)
             s4 == stripBid(s3)
             s5 == stripIntegrity(s4)
         IN  injectVersion(s5, now)
    ELSE substituteBusiness(cfg, src)

\* beforeAddBuffer with the cache-busting token also removed from other files
beforeAddBuffer_bidEverywhere(cfg, src, path, now) ==
    IF isHtmlAsset(cfg, path)
    THEN LET s1 == substitutePlatformBase(cfg, src)
             s2 == substituteBusiness(cfg, s1)
             s3 == stripCrossOrigin(s2)
             s4 == stripBid(s3)
             s5 == stripIntegrity(s4)
         IN  injectVersion(s5, now)
    ELSE stripBid(substituteBusiness(cfg, src))

\* beforeAddBuffer(source, assetPath), lines 587-611; now is what Date.now()
\* returns on line 602
beforeAddBuffer(cfg, src, path, now) ==
    IF isHtmlAsset(cfg, path)
    THEN LET s1 == substitutePlatformBase(cfg, src)
             s2 == substituteBusiness(cfg, s1)
             s3 == stripCrossOrigin(s2)
             s4 == stripBid(s3)
             s5 == stripIntegrity(s4)
         IN  injectVersion(s5, now)
    ELSE substituteBusiness(cfg, src)

\* ------------------------------------------------------------------------
\* path.join of Node (POSIX), as pathMapper uses it on line 585
\* ------------------------------------------------------------------------

\* the segments of a path between slashes, empty segments dropped
RECURSIVE SplitFrom(_, _)
SplitFrom(s, i) ==
    IF i > Len(s) THEN <<>>
    ELSE LET p == FirstOf({q \in i..Len(s) : s[q] = "/"})
             e == IF p = 0 THEN Len(s) + 1 ELSE p
         IN  (IF e = i THEN <<>> ELSE <<SubSeq(s, i, e - 1)>>) \o SplitFrom(s, e + 1)

Dot == Chars(".")
DotDot == Chars("..")

\* normalizeString: resolves the . and .. segments
RECURSIVE normalizeSegs(_, _, _)
normalizeSegs(segs, acc, allowAboveRoot) ==
    IF segs = <<>> THEN acc
    ELSE LET h == Head(segs)
         IN  IF h = Dot THEN normalizeSegs(Tail(segs), acc, allowAboveRoot)
             ELSE IF h = DotDot
             THEN IF acc # <<>> /\ acc[Len(acc)] # DotDot
                  THEN normalizeSegs(Tail(segs), SubSeq(acc, 1, Len(acc) - 1), allowAboveRoot)
                  ELSE IF allowAboveRoot
                  THEN normalizeSegs(Tail(segs), Append(acc, DotDot), allowAboveRoot)
                  ELSE normalizeSegs(Tail(segs), acc, allowAboveRoot)
             ELSE normalizeSegs(Tail(segs), Append(acc, h), allowAboveRoot)

RECURSIVE joinSegs(_)
joinSegs(segs) ==
    IF segs = <<>> THEN <<>>
    ELSE IF Len(segs) = 1 THEN segs[1]
    ELSE segs[1] \o <<"/">> \o joinSegs(Tail(segs))

\* path.normalize
pathNormalize(p) ==
    IF p = <<>> THEN Dot
    ELSE LET isAbsolute == p[1] = "/"
             trailing == p[Len(p)] = "/"
             body == joinSegs(normalizeSegs(SplitFrom(p, 1), <<>>, ~isAbsolute))
             dotted == IF body = <<>> /\ ~isAbsolute THEN Dot ELSE body
             slashed == IF dotted # <<>> /\ trailing THEN dotted \o <<"/">> ELSE dotted
         IN  IF isAbsolute THEN <<"/">> \o slashed ELSE slashed

\* path.join(a, b): empty arguments are skipped
pathJoin(a, b) ==
    IF a = <<>> /\ b = <<>> THEN Dot
    ELSE IF a = <<>> THEN pathNormalize(b)
    ELSE IF b = <<>> THEN pathNormalize(a)
    ELSE pathNormalize(a \o <<"/">> \o b)

\* pathMapper with the two prefixes tested in the other order
pathMapper_assetsFirst(cfg, path) ==
    LET stripped ==
          IF indexOf(path, cfg.assetsPrefix) # -1
          THEN replaceFirst(path, cfg.assetsPrefix, <<>>)
          ELSE IF indexOf(path, cfg.htmlPrefix) # -1
          THEN replaceFirst(path, cfg.htmlPrefix, <<>>)
          ELSE path
    IN  pathJoin(replaceFirst(cfg.serverUrl, Slashes, <<>>), stripped)

\* pathMapper(assetPath), lines 578-586
pathMapper(cfg, path) ==
    LET stripped ==
          IF indexOf(path, cfg.htmlPrefix) # -1
          THEN replaceFirst(path, cfg.htmlPrefix, <<>>)
          ELSE IF indexOf(path, cfg.assetsPrefix) # -1
          THEN replaceFirst(path, cfg.assetsPrefix, <<>>)
          ELSE path
    IN  pathJoin(replaceFirst(cfg.serverUrl, Slashes, <<>>), stripped)

\* ------------------------------------------------------------------------
\* JavaScript values that are not always strings
\* ------------------------------------------------------------------------

Undefined == [t |-> "undefined"]
Null == [t |-> "null"]
Bool(b) == [t |-> "boolean", v |-> b]
Str(s) == [t |-> "string", v |-> s]

\* ToBoolean
Truthy(x) ==
    CASE x.t = "boolean" -> x.v
      [] x.t = "string" -> x.v # <<>>
      [] OTHER -> FALSE

\* a && b, b being a value
And(a, b) == IF Truthy(a) THEN b ELSE a

\* ToString of JavaScript, as a template literal and a property key apply it
StringOf(x) ==
    CASE x.t = "string" -> x.v
      [] x.t = "boolean" -> IF x.v THEN Chars("true") ELSE Chars("false")
      [] x.t = "null" -> Chars("null")
      [] OTHER -> Chars("undefined")

\* ------------------------------------------------------------------------
\* setMultiplePage (lines 493-539)
\* ------------------------------------------------------------------------

\* projectRoot of lines 23-27
ProjectRoot == Chars("/proj")

PagesMarker == Chars("/pages/")

\* lines 504-505: the match of the pages pattern in entry and its group 1,
\* null without a match; the group is greedy and runs to the end of the line
pageNameOf(entry) ==
    LET p == FindFrom(entry, 1, PagesMarker)
    IN  IF p = 0 THEN Null
        ELSE Str(SubSeq(entry, p + Len(PagesMarker),
                        LineEndFrom(entry, p + Len(PagesMarker)) - 1))

\* line 501
entryFileOf(entry) == entry \o Chars("/init.js")

\* line 524 with an inject option that is passed on as it is
injectOption_unguarded(inject, isEntryFileExists) == inject

\* line 524: inject && isEntryFileExists
injectOption(inject, isEntryFileExists) == And(inject, Bool(isEntryFileExists))

\* lines 526-534
MinifyOptions ==
    [html5 |-> TRUE, collapseWhitespace |-> TRUE, preserveLineBreaks |-> FALSE,
     minifyCSS |-> TRUE, minifyJS |-> TRUE, removeComments |-> FALSE]

\* lines 507-510 and 516-535: the options of the HtmlWebpackPlugin of one entry
htmlPluginOf(entry, fs, opts) ==
    LET pageName == pageNameOf(entry)
        filename == IF Truthy(opts.htmlPrefix)
                    THEN StringOf(opts.htmlPrefix) \o Chars("/") ELSE Chars("")
    IN  [inlineSource |-> IF opts.inlineCSS THEN Str(Chars("\\.css$")) ELSE Undefined,
         template |-> pathJoin(ProjectRoot,
                               Chars("src/pages/") \o StringOf(pageName) \o Chars("/index.html")),
         filename |-> filename \o StringOf(pageName) \o Chars(".html"),
         chunks |-> <<pageName>>,
         assetsPrefix |-> opts.assetsPrefix \o Chars("/"),
         inject |-> injectOption(opts.inject, entryFileOf(entry) \in fs),
         minify |-> IF opts.minifyHtml THEN MinifyOptions ELSE Bool(FALSE)]

EmptyObject == [k \in {} |-> k]

\* lines 512-514 over the first n entries: newEntry, a later entry replacing an
\* earlier one under the same key
RECURSIVE newEntryAfter(_, _, _)
newEntryAfter(entries, fs, n) ==
    IF n = 0 THEN EmptyObject
    ELSE LET before == newEntryAfter(entries, fs, n - 1)
             entryFile == entryFileOf(entries[n])
         IN  IF entryFile \in fs
             THEN (StringOf(pageNameOf(entries[n])) :> entryFile) @@ before
             ELSE before

\* setMultiplePage with a plugin only for the entries that have an entry file
setMultiplePage_scriptPagesOnly(entries, fs, opts) ==
    [newEntry |-> newEntryAfter(entries, fs, Len(entries)),
     htmlWebpackPlugins |->
        LET F[n \in 0..Len(entries)] ==
              IF n = 0 THEN <<>>
              ELSE IF entryFileOf(entries[n]) \in fs
                   THEN Append(F[n - 1], htmlPluginOf(entries[n], fs, opts))
                   ELSE F[n - 1]
        IN  F[Len(entries)]]

\* setMultiplePage(entries, minifyHtml, inject, inlineCSS, assetsPrefix,
\* htmlPrefix) with the file system fs: fs.existsSync(f) is f \in fs
setMultiplePage(entries, fs, opts) ==
    [newEntry |-> newEntryAfter(entries, fs, Len(entries)),
     htmlWebpackPlugins |->
        [i \in 1..Len(entries) |-> htmlPluginOf(entries[i], fs, opts)]]

\* ------------------------------------------------------------------------
\* setAlias (lines 672-687); listDir, isEmpty and merge come from ./util
\* ------------------------------------------------------------------------

Object(f) == [t |-> "object", v |-> f]

\* listDir(path.join(projectRoot, './src'), 1): one entry for each first-level
\* subdirectory of src, names being the names of these subdirectories
listDir(names) ==
    {[name |-> n, dirPath |-> pathJoin(pathJoin(ProjectRoot, Chars("./src")), n)] : n \in names}

\* isEmpty(alias): nothing was passed, or an object without keys
isEmpty(alias) == alias.t # "object" \/ DOMAIN alias.v = {}

\* merge(alias, aliasObject): the keys of both, the value of alias where both
\* have the key
merge(alias, aliasObject) ==
    [k \in DOMAIN alias \cup DOMAIN aliasObject |->
        IF k \in DOMAIN alias THEN alias[k] ELSE aliasObject[k]]

\* lines 675-680: aliasObject after the forEach
discoveredAlias(names) ==
    LET dirs == listDir(names)
        keys == {d.name : d \in dirs} \cup {Chars("/") \o d.name : d \in dirs}
    IN  [k \in keys |->
            (CHOOSE d \in dirs : k = d.name \/ k = Chars("/") \o d.name).dirPath]

\* setAlias without the keys that start with a slash
setAlias_bareNamesOnly(alias, names) ==
    LET dirs == listDir(names)
        aliasObject == [k \in {d.name : d \in dirs} |->
                           (CHOOSE d \in dirs : k = d.name).dirPath]
    IN  IF isEmpty(alias) THEN aliasObject ELSE merge(alias.v, aliasObject)

\* setAlias(alias), names being the first-level subdirectories of src
setAlias(alias, names) ==
    LET aliasObject == discoveredAlias(names)
    IN  IF isEmpty(alias) THEN aliasObject ELSE merge(alias.v, aliasObject)

\* ------------------------------------------------------------------------
\* The filename templates (lines 77-157 and 446-459)
\* ------------------------------------------------------------------------

\* lines 78-83, 107-112, 137-142, 447-452
prefixPart(pathPrefix) ==
    IF Truthy(pathPrefix) THEN StringOf(pathPrefix) \o Chars("/") ELSE Chars("")

\* lines 79 and 85-87, 114-116, 144-146, 454-456
hashPart(useHash, placeholder) == IF useHash THEN placeholder ELSE Chars("")

\* setOutput with the hash put in whatever useHash says
setOutput_alwaysHash(useHash, pathPrefix, publicPath, outDir) ==
    [filename |-> prefixPart(pathPrefix) \o Chars("[name]")
                    \o Chars("_[chunkhash:8]") \o Chars(".js?_bid=152"),
     path |-> pathJoin(ProjectRoot,
                       StringOf(IF Truthy(outDir) THEN outDir ELSE Str(Chars("public")))
                         \o Chars("/")),
     publicPath |-> publicPath,
     crossOriginLoading |-> Chars("anonymous")]

\* setOutput(useHash, pathPrefix, publicPath, outDir), lines 77-97
setOutput(useHash, pathPrefix, publicPath, outDir) ==
    [filename |-> prefixPart(pathPrefix) \o Chars("[name]")
                    \o hashPart(useHash, Chars("_[chunkhash:8]")) \o Chars(".js?_bid=152"),
     path |-> pathJoin(ProjectRoot,
                       StringOf(IF Truthy(outDir) THEN outDir ELSE Str(Chars("public")))
                         \o Chars("/")),
     publicPath |-> publicPath,
     crossOriginLoading |-> Chars("anonymous")]

\* setImgRule(useHash, pathPrefix), lines 106-127
setImgRule(useHash, pathPrefix) ==
    [test |-> Chars("\\.(png|svg|jpg|gif|blob)$"),
     loader |-> Chars("inline-file-loader"),
     name |-> prefixPart(pathPrefix) \o Chars("img/[name]")
                \o hashPart(useHash, Chars("_[hash:8]")) \o Chars(".[ext]")]

\* setMediaRule(useHash, pathPrefix), lines 136-157
setMediaRule(useHash, pathPrefix) ==
    [test |-> Chars("\\.(mp3|mp4|mov)$"),
     loader |-> Chars("file-loader"),
     name |-> prefixPart(pathPrefix) \o Chars("img/[name]")
                \o hashPart(useHash, Chars("_[hash:8]")) \o Chars(".[ext]")]

\* setExtractTextPlugin(useHash, pathPrefix), lines 446-459: the filename the
\* ExtractTextPlugin is built with
setExtractTextPlugin(useHash, pathPrefix) ==
    [filename |-> prefixPart(pathPrefix) \o Chars("[name]")
                    \o hashPart(useHash, Chars("_[contenthash:8]")) \o Chars(".css")]

\* ------------------------------------------------------------------------
\* The offline pass: the plugin built by setOffline and its two callbacks
\* ------------------------------------------------------------------------

\* the value of a variable that holds nothing yet
NoValue == [none |-> TRUE]

MaxPasses == 2

\* the options setOffline is called with
OfflineConfigs ==
    { [assetsPrefix |-> Chars("cdn"), htmlPrefix |-> Chars("webserver"),
       cdnUrl |-> Chars("//cdn.example.com/productX/"),
       serverUrl |-> Chars("//now.qq.com/"), domain |-> Chars("example.com"),
       cdn |-> Chars("cdn.example.com"), product |-> Chars("productX")],
      [assetsPrefix |-> Chars("static"), htmlPrefix |-> Chars("html"),
       cdnUrl |-> Chars("//cdn.example.com/productX/"),
       serverUrl |-> Chars("//now.qq.com/h5"), domain |-> Chars("static.example.com"),
       cdn |-> Chars("cdn.example.com"), product |-> Chars("productX")],
      [assetsPrefix |-> Chars("cdn"), htmlPrefix |-> Chars(""),
       cdnUrl |-> Chars("//cdn.example.com/productX/"),
       serverUrl |-> Chars("now.qq.com"), domain |-> Chars("cdn.example.com"),
       cdn |-> Chars("cdn.example.com"), product |-> Chars("productX")] }

\* the logical paths of the built files
AssetPaths ==
    { Chars("webserver/index.html"), Chars("cdn/index.js"), Chars("img/a.png"),
      Chars("cdn/webserver/b.js"), Chars("/static/c.css"), Chars("static/../d.txt") }

\* pieces of built output
Pieces ==
    { Chars(""),
      Chars("<script src=\"//11.url.cn/now/x.js\" integrity=\"sha256-abc\" crossorigin=\"anonymous\"></script>"),
      Chars("<script src=\"//cdn.example.com/productX/b.js?_bid=152\" integrity=\"sha256-def\"></script>"),
      Chars("//cdn.example.com/productX/a.png?foo=1"),
      Chars("\""),
      Chars("<link href='//cdn-example.com/productX/c.css' integrity=\"sha256-ghi\">"),
      Chars("url(//11.url.cn/now/productX/d.png)"),
      Chars("<p>x</p>") }

\* what may stand between two pieces: nothing or a line break
Separators == {Chars(""), Chars("\n")}

\* the contents of the built files: two pieces, on one line or on two
Sources == {a \o sep \o b : a \in Pieces, sep \in Separators, b \in Pieces}

\* the values Date.now() returns
Clock == {152, 1541376000}

\* ------------------------------------------------------------------------
\* The inputs of the descriptor assembly
\* ------------------------------------------------------------------------

MaxEntries == 2
MaxSubdirs == 2
MaxPrefixLen == 2

\* the directories that may be handed to setMultiplePage: pages of the project,
\* a page of the same name under another root, and two directories the pages
\* pattern does not match
PageDirs ==
    { Chars("/proj/src/pages/a"), Chars("/proj/src/pages/b"), Chars("/vendor/pages/a"),
      Chars("/proj/src/lib"), Chars("pages/c") }

EntryLists == UNION {[1..n -> PageDirs] : n \in 0..MaxEntries}

\* the file systems: which of the directories hold an init.js
FileSystems == SUBSET {entryFileOf(d) : d \in PageDirs}

InjectValues == {Bool(TRUE), Bool(FALSE), Undefined, Str(Chars("head"))}

PageOptions ==
    { [minifyHtml |-> m, inject |-> i, inlineCSS |-> m,
       assetsPrefix |-> Chars("cdn"), htmlPrefix |-> h] :
         m \in BOOLEAN, i \in InjectValues, h \in {Str(Chars("webserver")), Str(Chars(""))} }

\* the names of the first-level subdirectories src may have
SubdirNames == {Chars("modules"), Chars("pages"), Chars("assets")}

SrcLayouts == {names \in SUBSET SubdirNames : Cardinality(names) <= MaxSubdirs}

OverrideKeys == {Chars("modules"), Chars("/pages"), Chars("@")}

OverridePaths == {Chars("/custom/a"), Chars("/custom/b")}

\* what setAlias may be called with: nothing, or an object of overrides
AliasInputs ==
    {Undefined} \cup {Object(f) : f \in UNION {[K -> OverridePaths] : K \in SUBSET OverrideKeys}}

PrefixAlphabet == {"j", "s", "/"}

\* what a pathPrefix may be: nothing, or a string
PrefixValues ==
    {Undefined}
      \cup {Str(p) : p \in UNION {[1..n -> PrefixAlphabet] : n \in 0..MaxPrefixLen}}

OutDirValues == {Undefined, Str(Chars("dist"))}

VARIABLES
    pagesCall, pagesResult,     \* the arguments and the result of setMultiplePage
    aliasCall, aliasResult,     \* the arguments and the result of setAlias
    nameCall, nameResult,       \* the arguments and the result of a template builder
    plugin,                     \* the options the offline plugin closes over
    assetPath, mapped,          \* the built file at hand and its archive path
    source, content,            \* what beforeAddBuffer was given and has returned
    passes,                     \* the offline passes made over that file
    stamp                       \* what Date.now() returned in the last pass

assemblyVars == <<pagesCall, pagesResult, aliasCall, aliasResult, nameCall, nameResult>>

offlineVars == <<plugin, assetPath, mapped, source, content, passes, stamp>>

vars == <<pagesCall, pagesResult, aliasCall, aliasResult, nameCall, nameResult,
          plugin, assetPath, mapped, source, content, passes, stamp>>

Init ==
    /\ pagesCall = NoValue
    /\ pagesResult = NoValue
    /\ aliasCall = NoValue
    /\ aliasResult = NoValue
    /\ nameCall = NoValue
    /\ nameResult = NoValue
    /\ plugin = NoValue
    /\ assetPath = NoValue
    /\ mapped = NoValue
    /\ source = NoValue
    /\ content = NoValue
    /\ passes = 0
    /\ stamp = 0

\* setOffline(...): the plugin closes over the options
setOffline ==
    /\ plugin = NoValue
    /\ \E cfg \in OfflineConfigs : plugin' = cfg
    /\ UNCHANGED <<assetPath, mapped, source, content, passes, stamp>>
    /\ UNCHANGED assemblyVars

\* the plugin asks pathMapper for the archive path of the next built file
CallPathMapper ==
    /\ plugin # NoValue
    /\ \E p \in AssetPaths :
          /\ assetPath' = p
          /\ mapped' = pathMapper(plugin, p)
    /\ source' = NoValue
    /\ content' = NoValue
    /\ passes' = 0
    /\ stamp' = 0
    /\ UNCHANGED plugin
    /\ UNCHANGED assemblyVars

\* the plugin hands the content of that file to beforeAddBuffer
CallBeforeAddBuffer ==
    /\ assetPath # NoValue
    /\ passes = 0
    /\ \E src \in Sources, t \in Clock :
          /\ source' = src
          /\ content' = beforeAddBuffer(plugin, src, assetPath, t)
          /\ stamp' = t
    /\ passes' = 1
    /\ UNCHANGED <<plugin, assetPath, mapped>>
    /\ UNCHANGED assemblyVars

\* a later offline pass over output that was already rewritten
RewriteAgain ==
    /\ passes >= 1
    /\ passes < MaxPasses
    /\ \E t \in Clock :
          /\ content' = beforeAddBuffer(plugin, content, assetPath, t)
          /\ stamp' = t
    /\ source' = content
    /\ passes' = passes + 1
    /\ UNCHANGED <<plugin, assetPath, mapped>>
    /\ UNCHANGED assemblyVars

\* setMultiplePage is called once
CallSetMultiplePage ==
    /\ pagesCall = NoValue
    /\ \E entries \in EntryLists, fs \in FileSystems, opts \in PageOptions :
          /\ pagesCall' = [entries |-> entries, fs |-> fs, opts |-> opts]
          /\ pagesResult' = setMultiplePage(entries, fs, opts)
    /\ UNCHANGED <<aliasCall, aliasResult, nameCall, nameResult>>
    /\ UNCHANGED offlineVars

\* setAlias is called once
CallSetAlias ==
    /\ aliasCall = NoValue
    /\ \E alias \in AliasInputs, names \in SrcLayouts :
          /\ aliasCall' = [alias |-> alias, names |-> names]
          /\ aliasResult' = setAlias(alias, names)
    /\ UNCHANGED <<pagesCall, pagesResult, nameCall, nameResult>>
    /\ UNCHANGED offlineVars

CallSetOutput ==
    /\ nameCall = NoValue
    /\ \E useHash \in BOOLEAN, pathPrefix \in PrefixValues, outDir \in OutDirValues :
          /\ nameCall' = [fn |-> "setOutput", useHash |-> useHash,
                          pathPrefix |-> pathPrefix, outDir |-> outDir]
          /\ nameResult' = setOutput(useHash, pathPrefix, Chars("//cdn.example.com/productX/"), outDir)
    /\ UNCHANGED <<pagesCall, pagesResult, aliasCall, aliasResult>>
    /\ UNCHANGED offlineVars

CallSetImgRule ==
    /\ nameCall = NoValue
    /\ \E useHash \in BOOLEAN, pathPrefix \in PrefixValues :
          /\ nameCall' = [fn |-> "setImgRule", useHash |-> useHash, pathPrefix |-> pathPrefix]
          /\ nameResult' = setImgRule(useHash, pathPrefix)
    /\ UNCHANGED <<pagesCall, pagesResult, aliasCall, aliasResult>>
    /\ UNCHANGED offlineVars

CallSetMediaRule ==
    /\ nameCall = NoValue
    /\ \E useHash \in BOOLEAN, pathPrefix \in PrefixValues :
          /\ nameCall' = [fn |-> "setMediaRule", useHash |-> useHash, pathPrefix |-> pathPrefix]
          /\ nameResult' = setMediaRule(useHash, pathPrefix)
    /\ UNCHANGED <<pagesCall, pagesResult, aliasCall, aliasResult>>
    /\ UNCHANGED offlineVars

CallSetExtractTextPlugin ==
    /\ nameCall = NoValue
    /\ \E useHash \in BOOLEAN, pathPrefix \in PrefixValues :
          /\ nameCall' = [fn |-> "setExtractTextPlugin", useHash |-> useHash,
                          pathPrefix |-> pathPrefix]
          /\ nameResult' = setExtractTextPlugin(useHash, pathPrefix)
    /\ UNCHANGED <<pagesCall, pagesResult, aliasCall, aliasResult>>
    /\ UNCHANGED offlineVars

\* the planning of the pages
NextPages == CallSetMultiplePage

SpecPages == Init /\ [][NextPages]_vars

\* the resolution of the aliases
NextAlias == CallSetAlias

SpecAlias == Init /\ [][NextAlias]_vars

\* the filename templates
NextNames ==
    \/ CallSetOutput
    \/ CallSetImgRule
    \/ CallSetMediaRule
    \/ CallSetExtractTextPlugin

SpecNames == Init /\ [][NextNames]_vars

\* the whole program: the descriptor assembly and the offline pass
Next ==
    \/ CallSetMultiplePage
    \/ CallSetAlias
    \/ CallSetOutput
    \/ CallSetImgRule
    \/ CallSetMediaRule
    \/ CallSetExtractTextPlugin
    \/ setOffline
    \/ CallPathMapper
    \/ CallBeforeAddBuffer
    \/ RewriteAgain

Spec == Init /\ [][Next]_vars

NextOffline ==
    \/ setOffline
    \/ CallPathMapper
    \/ CallBeforeAddBuffer
    \/ RewriteAgain

SpecOffline == Init /\ [][NextOffline]_vars

\* ------------------------------------------------------------------------
\* Properties of the offline pass
\* ------------------------------------------------------------------------

\* t occurs somewhere in s (the empty string occurs in every string)
Contains(s, t) == \E i \in 1..(Len(s) + 1) : LitAt(s, i, t)

\* the number of positions of s where t occurs
Count(s, t) == Cardinality({i \in 1..Len(s) : LitAt(s, i, t)})

\* beforeAddBuffer has returned the content of a markup file
MarkupRewritten == passes >= 1 /\ Contains(assetPath, plugin.htmlPrefix)

\* beforeAddBuffer has returned the content of a file that is not markup
OtherRewritten == passes >= 1 /\ ~Contains(assetPath, plugin.htmlPrefix)

ScenarioTag ==
    Chars("<script src=\"//11.url.cn/now/x.js\" integrity=\"sha256-abc\" crossorigin=\"anonymous\"></script>")

ScenarioTagRewritten(now) ==
    Chars("<script>var pack = {\"version\":") \o DecStr(now) \o Chars("}</script>")
      \o Chars("<script src=\"//example.com/x.js\"  ></script>")

\* C4: the content beforeAddBuffer returns for a markup file is rule (6) applied
\* to rule (5) applied to ... rule (1) applied to the source, each rule working
\* on the output of the rule before it; the script tag of the scenario, with
\* the domain example.com, comes out pointing at //example.com/x.js, without
\* its integrity and crossorigin attributes, behind the inline version script.
C4_MarkupRulesInOrder ==
    MarkupRewritten =>
        /\ content =
             injectVersion(
               stripIntegrity(
                 stripBid(
                   stripCrossOrigin(
                     substituteBusiness(plugin,
                       substitutePlatformBase(plugin, source))))),
               stamp)
        /\ (source = ScenarioTag /\ plugin.domain = Chars("example.com"))
              => content = ScenarioTagRewritten(stamp)

\* C4 witness: the scenario tag was rewritten as markup for example.com, and
\* a later rule has worked on what an earlier rule produced (the platform
\* base rewritten to the cdn host is rewritten again by the business rule).
C4_Witness_Scenario ==
    /\ MarkupRewritten
    /\ passes = 1
    /\ source = ScenarioTag
    /\ plugin.domain = Chars("example.com")
    /\ content = ScenarioTagRewritten(stamp)

C4_Witness_Chained ==
    /\ MarkupRewritten
    /\ passes = 1
    /\ source = Chars("url(//11.url.cn/now/productX/d.png)")
    /\ content = Chars("url(//cdn.example.com/d.png)")

BareReference == Chars("//cdn.example.com/productX/a.png?foo=1")

\* the text //cdn/product/ that the claim calls a reference
LiteralBusinessPrefix(cfg) ==
    Slashes \o cfg.cdn \o Chars("/") \o cfg.product \o Chars("/")

\* the tokens only the markup rules touch or produce
MarkupOnlyTokens == {CrossOrigin, BidToken, IntegrityOpen, PlatformBase, PackOpen}

\* C5 as stated: for a file that is not markup every //cdn/product/rest is
\* replaced by //domain/rest and nothing else changes; the bare content
\* //cdn.example.com/productX/a.png?foo=1 becomes
\* //static.example.com/a.png?foo=1.
C5_Original_EveryReference ==
    OtherRewritten =>
        /\ content = replaceAll(source, LiteralBusinessPrefix(plugin),
                                Slashes \o plugin.domain \o Chars("/"))
        /\ (source = BareReference /\ plugin.domain = Chars("static.example.com"))
              => content = Chars("//static.example.com/a.png?foo=1")

\* C5 amended: for a file that is not markup the only change is rule (2), the
\* replacement of every match of the pattern built from //cdn/product/ (cdn
\* and product read as pattern source), one or more characters that are no
\* quote, backquote or closing parenthesis, and one such terminator; a source
\* without a match is returned as it is, the bare scenario reference among
\* them, the same reference followed by a double quote is rewritten, and no
\* token of the markup-only rules appears or disappears.
C5_OtherOnlyTerminatedReferences ==
    OtherRewritten =>
        /\ content = substituteBusiness(plugin, source)
        /\ (\A i \in 1..Len(source) : RefEndAt(source, i, businessRegex(plugin)) = 0)
              => content = source
        /\ source = BareReference => content = BareReference
        /\ (source = BareReference \o Chars("\"") /\ plugin.domain = Chars("static.example.com"))
              => content = Chars("//static.example.com/a.png?foo=1\"")
        /\ \A t \in MarkupOnlyTokens : Count(content, t) = Count(source, t)

\* C5 witness: a file that is not markup, holding a terminated reference next
\* to tokens of the markup-only rules, was rewritten to the target domain.
C5_Witness ==
    /\ OtherRewritten
    /\ plugin.domain = Chars("static.example.com")
    /\ source = BareReference \o Chars("\"")
    /\ content = Chars("//static.example.com/a.png?foo=1\"")

C5_Witness_TokensKept ==
    /\ OtherRewritten
    /\ Contains(source, BidToken)
    /\ Contains(source, IntegrityOpen)
    /\ content # source

\* the server path of line 585: serverUrl without its first //
ServerPath(cfg) ==
    LET i == FirstOf({p \in 1..Len(cfg.serverUrl) : LitAt(cfg.serverUrl, p, Slashes)})
    IN  IF i = 0 THEN cfg.serverUrl
        ELSE SubSeq(cfg.serverUrl, 1, i - 1) \o SubSeq(cfg.serverUrl, i + 2, Len(cfg.serverUrl))

\* mapped is r under the server path
UnderServerPath(r) == mapped = pathJoin(ServerPath(plugin), r)

HtmlCase ==
    \E i \in 1..(Len(assetPath) + 1) :
        /\ LitAt(assetPath, i, plugin.htmlPrefix)
        /\ \A j \in 1..(i - 1) : ~LitAt(assetPath, j, plugin.htmlPrefix)
        /\ UnderServerPath(SubSeq(assetPath, 1, i - 1)
                             \o SubSeq(assetPath, i + Len(plugin.htmlPrefix), Len(assetPath)))

AssetsCase ==
    \E i \in 1..(Len(assetPath) + 1) :
        /\ LitAt(assetPath, i, plugin.assetsPrefix)
        /\ \A j \in 1..(i - 1) : ~LitAt(assetPath, j, plugin.assetsPrefix)
        /\ UnderServerPath(SubSeq(assetPath, 1, i - 1)
                             \o SubSeq(assetPath, i + Len(plugin.assetsPrefix), Len(assetPath)))

\* C6 as stated: htmlPrefix stripped and the server path put in front when the
\* path contains htmlPrefix, else the same with assetsPrefix, and a path that
\* contains neither prefix is returned unmodified.
C6_Original_NeitherUnmodified ==
    mapped # NoValue =>
        IF Contains(assetPath, plugin.htmlPrefix) THEN HtmlCase
        ELSE IF Contains(assetPath, plugin.assetsPrefix) THEN AssetsCase
        ELSE mapped = assetPath

\* C6 amended: pathMapper returns path.join(server path, p), the server path
\* being serverUrl without its first //, where p is the path without its first
\* occurrence of htmlPrefix when it contains htmlPrefix, else the path without
\* its first occurrence of assetsPrefix when it contains assetsPrefix, else the
\* path itself: a path containing neither prefix is put under the server path
\* too, with nothing stripped.
C6_AlwaysUnderServerPath ==
    mapped # NoValue =>
        IF Contains(assetPath, plugin.htmlPrefix) THEN HtmlCase
        ELSE IF Contains(assetPath, plugin.assetsPrefix) THEN AssetsCase
        ELSE UnderServerPath(assetPath)

\* C6 witnesses: each of the three branches of pathMapper was taken.
C6_Witness_Neither ==
    /\ mapped # NoValue
    /\ ~Contains(assetPath, plugin.htmlPrefix)
    /\ ~Contains(assetPath, plugin.assetsPrefix)
    /\ assetPath = Chars("img/a.png")
    /\ mapped = Chars("now.qq.com/img/a.png")

C6_Witness_BothPrefixes ==
    /\ mapped # NoValue
    /\ plugin.htmlPrefix # <<>>
    /\ Contains(assetPath, plugin.htmlPrefix)
    /\ Contains(assetPath, plugin.assetsPrefix)
    /\ assetPath = Chars("cdn/webserver/b.js")
    /\ mapped = Chars("now.qq.com/cdn/b.js")

\* the pattern of rule (5) matches in s: a script opening with an integrity
\* attribute after it on the same line
ScriptIntegrityIn(s) ==
    \E i \in 1..Len(s) :
        /\ LitAt(s, i, ScriptOpen)
        /\ \E j \in (i + Len(ScriptOpen))..Len(s) :
              /\ LitAt(s, j, IntegrityOpen)
              /\ \E k \in (j + Len(IntegrityOpen))..Len(s) :
                    /\ s[k] = "\""
                    /\ \A m \in i..k : s[m] \notin LineTerminators

\* C7 as stated: after one pass over markup the content holds no
\* crossorigin="anonymous", no ?_bid=152 and no integrity attribute of a script
\* tag, so that in a second pass the three removal rules change nothing, while
\* the version rule puts one more inline version script into markup that has
\* a script opening.
C7_Original_RemovalsIdempotent ==
    MarkupRewritten =>
        /\ ~Contains(content, CrossOrigin)
        /\ ~Contains(content, BidToken)
        /\ ~ScriptIntegrityIn(content)
        /\ passes >= 2 =>
              /\ stripIntegrity(stripBid(stripCrossOrigin(source))) = source
              /\ Contains(source, ScriptOpen)
                    => Count(content, PackOpen) = Count(source, PackOpen) + 1

\* the end of the tag opened at p: its first closing angle bracket, Len(s) + 1
\* if there is none
TagEnd(s, p) ==
    LET e == FirstOf({q \in p..Len(s) : s[q] = ">"})
    IN  IF e = 0 THEN Len(s) + 1 ELSE e

\* where the integrity attribute of the tag opened at p starts, 0 if the tag
\* carries none
TagIntegrity(s, p) ==
    FirstOf({j \in p..(TagEnd(s, p) - 1) :
               /\ LitAt(s, j, IntegrityOpen)
               /\ \E k \in (j + Len(IntegrityOpen))..(TagEnd(s, p) - 1) : s[k] = "\""})

\* the first script tag of s that carries an integrity attribute, 0 if none
FirstIntegrityTag(s) ==
    FirstOf({p \in 1..Len(s) : LitAt(s, p, ScriptOpen) /\ TagIntegrity(s, p) # 0})

\* s with the integrity attribute of that tag taken out and every other tag
\* as it was
FirstTagStripped(s) ==
    LET p == FirstIntegrityTag(s)
    IN  IF p = 0 THEN s
        ELSE LET j == TagIntegrity(s, p)
                 k == FirstOf({q \in (j + Len(IntegrityOpen))..Len(s) : s[q] = "\""})
             IN  SubSeq(s, 1, j - 1) \o SubSeq(s, k + 1, Len(s))

\* the markup as rules (1) to (4) leave it, which is what rule (5) is applied to
BeforeIntegrityRule ==
    stripBid(stripCrossOrigin(
        substituteBusiness(plugin, substitutePlatformBase(plugin, source))))

\* C11 as stated: in a markup rewrite, rule (5) takes the integrity attribute
\* out of the first script tag that carries one and out of no other tag, the
\* tags being on one line or on several; the returned content is then that
\* markup with the version script of rule (6) put in.
C11_Original_FirstScriptTagOnly ==
    MarkupRewritten =>
        content = injectVersion(FirstTagStripped(BeforeIntegrityRule), stamp)

\* the marks the markup-only rules leave: no crossorigin attribute and no
\* cache-busting token is left, and markup with a script opening has one more
\* version script than before
MarkupRulesApplied ==
    /\ ~Contains(content, CrossOrigin)
    /\ ~Contains(content, BidToken)
    /\ Contains(source, ScriptOpen) => Count(content, PackOpen) = Count(source, PackOpen) + 1

\* none of the markup-only rules has acted on the content
MarkupRulesNotApplied ==
    /\ Count(content, CrossOrigin) = Count(source, CrossOrigin)
    /\ Count(content, BidToken) = Count(source, BidToken)
    /\ Count(content, IntegrityOpen) = Count(source, IntegrityOpen)
    /\ Count(content, PackOpen) = Count(source, PackOpen)
    /\ Count(content, PlatformBase) = Count(source, PlatformBase)

\* C12: classification and path mapping agree. A file whose path contains
\* htmlPrefix (every file when htmlPrefix is empty) is rewritten by the
\* markup-only rules and mapped by the htmlPrefix-stripping branch; any other
\* file is rewritten by none of the markup-only rules and mapped by the
\* assetsPrefix branch or with nothing stripped.
C12_ClassificationMatchesMapping ==
    (passes >= 1 /\ mapped # NoValue) =>
        IF Contains(assetPath, plugin.htmlPrefix)
        THEN MarkupRulesApplied /\ HtmlCase
        ELSE /\ MarkupRulesNotApplied
             /\ IF Contains(assetPath, plugin.assetsPrefix) THEN AssetsCase
                ELSE UnderServerPath(assetPath)

\* C12 witness: with an empty htmlPrefix a file under the assets prefix was
\* rewritten as markup (its crossorigin attribute is gone) and mapped by the
\* htmlPrefix branch (the assets prefix is still in its archive path).
C12_Witness_EmptyHtmlPrefix ==
    /\ passes >= 1
    /\ plugin.htmlPrefix = <<>>
    /\ assetPath = Chars("cdn/index.js")
    /\ Contains(source, CrossOrigin)
    /\ ~Contains(content, CrossOrigin)
    /\ mapped = Chars("now.qq.com/cdn/index.js")

\* C12 witness: a path holding htmlPrefix after the assets prefix was
\* rewritten as markup and mapped by the htmlPrefix branch.
C12_Witness_PrefixInside ==
    /\ passes >= 1
    /\ plugin.htmlPrefix = Chars("webserver")
    /\ assetPath = Chars("cdn/webserver/b.js")
    /\ Contains(source, BidToken)
    /\ ~Contains(content, BidToken)
    /\ mapped = Chars("now.qq.com/cdn/b.js")

\* ------------------------------------------------------------------------
\* Properties of the descriptor assembly
\* ------------------------------------------------------------------------

\* dir follows the pages/<name> convention the code tests on line 504
MatchesConvention(dir) == Contains(dir, PagesMarker)

\* the page name of a directory that follows the convention: what comes after
\* the first /pages/
ConventionName(dir) ==
    LET i == FirstOf({p \in 1..Len(dir) : LitAt(dir, p, PagesMarker)})
    IN  SubSeq(dir, i + Len(PagesMarker), Len(dir))

\* the entry script of a directory
InitScript(dir) == dir \o Chars("/init.js")

\* setMultiplePage has returned
PagesPlanned == pagesCall # NoValue

\* the positions of the entries that have the page name k and an entry script
ScriptedAs(k) ==
    {i \in 1..Len(pagesCall.entries) :
        /\ MatchesConvention(pagesCall.entries[i])
        /\ ConventionName(pagesCall.entries[i]) = k
        /\ InitScript(pagesCall.entries[i]) \in pagesCall.fs}

\* C1: when every directory handed to setMultiplePage follows the convention,
\* the result holds one descriptor for each directory, in the order of the
\* input, and a page name is a key of the entry map exactly when the entry
\* script of a directory with that page name exists; its value is then that
\* entry script (of the last such directory, should two have the same name).
C1_OneDescriptorPerPage ==
    (PagesPlanned /\ \A i \in 1..Len(pagesCall.entries) :
                        MatchesConvention(pagesCall.entries[i])) =>
        LET entries == pagesCall.entries
            plugins == pagesResult.htmlWebpackPlugins
            newEntry == pagesResult.newEntry
        IN  /\ Len(plugins) = Len(entries)
            /\ \A i \in 1..Len(entries) :
                  /\ plugins[i].chunks = <<Str(ConventionName(entries[i]))>>
                  /\ (ConventionName(entries[i]) \in DOMAIN newEntry)
                        <=> ScriptedAs(ConventionName(entries[i])) # {}
            /\ \A k \in DOMAIN newEntry :
                  /\ ScriptedAs(k) # {}
                  /\ newEntry[k] = InitScript(entries[SetMax(ScriptedAs(k))])

\* C1 witness: two pages were planned, a without and b with an entry script;
\* both have a descriptor and only b is in the entry map.
C1_Witness ==
    /\ PagesPlanned
    /\ pagesCall.entries = <<Chars("/proj/src/pages/a"), Chars("/proj/src/pages/b")>>
    /\ pagesCall.fs = {Chars("/proj/src/pages/b/init.js")}
    /\ Len(pagesResult.htmlWebpackPlugins) = 2
    /\ DOMAIN pagesResult.newEntry = {Chars("b")}
    /\ pagesResult.newEntry[Chars("b")] = Chars("/proj/src/pages/b/init.js")

\* C2 as stated: whatever the inject option is, the descriptor of a page has
\* inject strictly false when the page has no entry script and strictly the
\* inject option when it has one.
C2_Original_InjectStrict ==
    PagesPlanned =>
        \A i \in 1..Len(pagesCall.entries) :
            IF InitScript(pagesCall.entries[i]) \in pagesCall.fs
            THEN pagesResult.htmlWebpackPlugins[i].inject = pagesCall.opts.inject
            ELSE pagesResult.htmlWebpackPlugins[i].inject = Bool(FALSE)

\* an inject option that JavaScript takes for false
FalsyOption(x) == x = Undefined \/ x = Null \/ x = Bool(FALSE) \/ x = Str(Chars(""))

\* C2 amended: the descriptor's inject is the inject option itself when the
\* option is falsy (false, undefined, an empty string), entry script or not;
\* when the option is truthy it is the boolean true with an entry script and the
\* boolean false without one.  So for a boolean option it is strictly false
\* without an entry script and strictly the option with one.
C2_InjectIsOptionAndScript ==
    PagesPlanned =>
        \A i \in 1..Len(pagesCall.entries) :
            LET inject == pagesResult.htmlWebpackPlugins[i].inject
                option == pagesCall.opts.inject
                scripted == InitScript(pagesCall.entries[i]) \in pagesCall.fs
            IN  /\ FalsyOption(option) => inject = option
                /\ ~FalsyOption(option) => inject = Bool(scripted)
                /\ (option \in {Bool(TRUE), Bool(FALSE)} /\ ~scripted) => inject = Bool(FALSE)
                /\ (option \in {Bool(TRUE), Bool(FALSE)} /\ scripted) => inject = option

\* C2 witness: a page without an entry script was planned with the inject
\* option true, and its descriptor has inject false; with the option absent
\* the descriptor's inject is undefined, not false.
C2_Witness ==
    /\ PagesPlanned
    /\ pagesCall.opts.inject = Bool(TRUE)
    /\ pagesCall.entries = <<Chars("/proj/src/pages/a"), Chars("/proj/src/pages/b")>>
    /\ pagesCall.fs = {Chars("/proj/src/pages/b/init.js")}
    /\ pagesResult.htmlWebpackPlugins[1].inject = Bool(FALSE)
    /\ pagesResult.htmlWebpackPlugins[2].inject = Bool(TRUE)

C2_Witness_Absent ==
    /\ PagesPlanned
    /\ pagesCall.opts.inject = Undefined
    /\ pagesCall.entries = <<Chars("/proj/src/pages/a")>>
    /\ pagesCall.fs = {}
    /\ pagesResult.htmlWebpackPlugins[1].inject = Undefined

\* C3 as stated: a directory that does not follow the convention is skipped:
\* it adds no descriptor and no key to the entry map.
C3_Original_NonMatchingSkipped ==
    PagesPlanned =>
        LET entries == pagesCall.entries
            matching == {i \in 1..Len(entries) : MatchesConvention(entries[i])}
        IN  /\ Len(pagesResult.htmlWebpackPlugins) = Cardinality(matching)
            /\ \A k \in DOMAIN pagesResult.newEntry :
                  \E i \in matching : ConventionName(entries[i]) = k

\* setAlias has returned
AliasResolved == aliasCall # NoValue

\* the absolute path of the first-level subdirectory n of src
SubdirPath(n) == Chars("/proj/src/") \o n

\* C9: for the N first-level subdirectories of src the map setAlias returns has
\* the keys n and /n for each of them; called with no overrides or with empty
\* ones it is exactly these 2N keys, each with the absolute path of its
\* subdirectory; called with overrides, a key of both maps has the value of
\* the overrides and the other discovered keys keep the subdirectory's path.
C9_AliasKeysAndOverrides ==
    AliasResolved =>
        LET names == aliasCall.names
            alias == aliasCall.alias
            slashed(n) == Chars("/") \o n
            discovered == names \cup {slashed(n) : n \in names}
            given == IF alias = Undefined THEN {} ELSE DOMAIN alias.v
        IN  /\ discovered \subseteq DOMAIN aliasResult
            /\ Cardinality(discovered) = 2 * Cardinality(names)
            /\ given = {} =>
                  /\ DOMAIN aliasResult = discovered
                  /\ \A n \in names :
                        /\ aliasResult[n] = SubdirPath(n)
                        /\ aliasResult[slashed(n)] = SubdirPath(n)
            /\ given # {} =>
                  /\ \A k \in given \cap discovered : aliasResult[k] = alias.v[k]
                  /\ \A n \in names :
                        /\ n \notin given => aliasResult[n] = SubdirPath(n)
                        /\ slashed(n) \notin given => aliasResult[slashed(n)] = SubdirPath(n)

\* C9 witness: src has the subdirectories modules and pages and the overrides
\* give modules another path: the key modules has the override, /modules the
\* subdirectory.
C9_Witness ==
    /\ AliasResolved
    /\ aliasCall.names = {Chars("modules"), Chars("pages")}
    /\ aliasCall.alias # Undefined
    /\ DOMAIN aliasCall.alias.v = {Chars("modules"), Chars("/pages")}
    /\ aliasResult[Chars("modules")] = aliasCall.alias.v[Chars("modules")]
    /\ aliasResult[Chars("/modules")] = Chars("/proj/src/modules")
    /\ aliasResult[Chars("pages")] = Chars("/proj/src/pages")

\* a template builder has returned
NameBuilt == nameCall # NoValue

\* the template a builder returns
TemplateBuilt ==
    IF nameCall.fn \in {"setImgRule", "setMediaRule"} THEN nameResult.name
    ELSE nameResult.filename

\* the base name, the hash placeholder and the ending of each asset class
BaseName(fn) ==
    IF fn \in {"setImgRule", "setMediaRule"} THEN Chars("img/[name]") ELSE Chars("[name]")

Placeholder(fn) ==
    CASE fn = "setOutput" -> Chars("_[chunkhash:8]")
      [] fn = "setExtractTextPlugin" -> Chars("_[contenthash:8]")
      [] OTHER -> Chars("_[hash:8]")

Ending(fn) ==
    CASE fn = "setOutput" -> Chars(".js?_bid=152")
      [] fn = "setExtractTextPlugin" -> Chars(".css")
      [] OTHER -> Chars(".[ext]")

\* the prefix that was passed, the empty string when none was
PrefixGiven == IF nameCall.pathPrefix = Undefined THEN Chars("") ELSE nameCall.pathPrefix.v

\* C10: the template of each asset class holds the hash placeholder of the
\* class, right after the base name, exactly when useHash is true, it starts
\* with the prefix and a slash exactly when the prefix is not empty, and the
\* rest of it is the same for all inputs.
C10_TemplateShape ==
    NameBuilt =>
        LET fn == nameCall.fn
            front == IF PrefixGiven # <<>> THEN PrefixGiven \o Chars("/") ELSE <<>>
            hash == IF nameCall.useHash THEN Placeholder(fn) ELSE <<>>
        IN  /\ TemplateBuilt = front \o BaseName(fn) \o hash \o Ending(fn)
            /\ Contains(TemplateBuilt, Placeholder(fn)) <=> nameCall.useHash
            /\ Contains(TemplateBuilt, BaseName(fn) \o Placeholder(fn)) <=> nameCall.useHash
            /\ LitAt(TemplateBuilt, 1, PrefixGiven \o Chars("/")) <=> PrefixGiven # <<>>

\* C10 witness: the script template was built with a hash and the prefix js.
C10_Witness ==
    /\ NameBuilt
    /\ nameCall.fn = "setOutput"
    /\ nameCall.useHash
    /\ nameCall.pathPrefix = Str(Chars("js"))
    /\ nameResult.filename = Chars("js/[name]_[chunkhash:8].js?_bid=152")

====
